---------------------------- MODULE Spec2Model ----------------------------
(***************************************************************************)
(* Model of sesame.tokens_v2 (src/src/sesame/tokens_v2.py): the v2 signed  *)
(* token codec, create_token and the parse_token validation pipeline.      *)
(*                                                                         *)
(* Representation                                                          *)
(*   str        a sequence of Unicode code points                          *)
(*   bytes      a sequence of 0..255                                       *)
(*   None       the empty tuple <<>>; a present optional value x is <<x>>  *)
(*   outcome    [ok |-> TRUE, val |-> v] or [ok |-> FALSE] (an exception)  *)
(*   int        Python integers are unbounded; the values that can leave   *)
(*              32 bits (the offset timestamp and the age of a token) are  *)
(*              kept in two limbs                                          *)
(***************************************************************************)
EXTENDS Integers, Sequences, FiniteSets, TLC

\* ------------------------------------------------------------------------
\* Optional values and outcomes
\* ------------------------------------------------------------------------
None ==
    <<>>

Some(x) ==
    <<x>>

Ok(v) ==
    [ok |-> TRUE, val |-> v]

Raise ==
    [ok |-> FALSE]

\* ------------------------------------------------------------------------
\* Python integers wider than 32 bits: value = hi * 2^16 + lo, 0 <= lo < 2^16
\* ------------------------------------------------------------------------
Limb ==
    256 * 256

Wide(x) ==
    [hi |-> x \div Limb, lo |-> x % Limb]

WideSub(a, b) ==
    LET lo == a.lo - b.lo
    IN  IF lo >= 0 THEN [hi |-> a.hi - b.hi, lo |-> lo]
                   ELSE [hi |-> a.hi - b.hi - 1, lo |-> lo + Limb]

WideGE(a, b) ==
    \/ a.hi > b.hi
    \/ a.hi = b.hi /\ a.lo >= b.lo

\* ------------------------------------------------------------------------
\* str.encode(): UTF-8; a lone surrogate raises UnicodeEncodeError
\* ------------------------------------------------------------------------
IsSurrogate(cp) ==
    cp >= 55296 /\ cp <= 57343

Utf8Char(cp) ==
    IF cp < 128 THEN <<cp>>
    ELSE IF cp < 2048 THEN <<192 + (cp \div 64), 128 + (cp % 64)>>
    ELSE <<224 + (cp \div 4096), 128 + ((cp \div 64) % 64), 128 + (cp % 64)>>

RECURSIVE Utf8Bytes(_)
Utf8Bytes(s) ==
    IF s = <<>> THEN <<>> ELSE Utf8Char(Head(s)) \o Utf8Bytes(Tail(s))

encode(s) ==
    IF \E i \in 1..Len(s) : IsSurrogate(s[i]) THEN Raise ELSE Ok(Utf8Bytes(s))

\* bytes.decode() of the ASCII output of the base64 encoder
decode(b) ==
    b

\* ------------------------------------------------------------------------
\* base64.urlsafe_b64encode(data).rstrip(b"=")
\* ------------------------------------------------------------------------
B64Char(v) ==
    IF v < 26 THEN 65 + v
    ELSE IF v < 52 THEN 97 + (v - 26)
    ELSE IF v < 62 THEN 48 + (v - 52)
    ELSE IF v = 62 THEN 45
    ELSE 95

RECURSIVE urlsafe_b64encode(_)
urlsafe_b64encode(d) ==
    IF Len(d) = 0 THEN <<>>
    ELSE IF Len(d) = 1 THEN
        <<B64Char(d[1] \div 4), B64Char((d[1] % 4) * 16), 61, 61>>
    ELSE IF Len(d) = 2 THEN
        <<B64Char(d[1] \div 4),
          B64Char((d[1] % 4) * 16 + (d[2] \div 16)),
          B64Char((d[2] % 16) * 4), 61>>
    ELSE
        <<B64Char(d[1] \div 4),
          B64Char((d[1] % 4) * 16 + (d[2] \div 16)),
          B64Char((d[2] % 16) * 4 + (d[3] \div 64)),
          B64Char(d[3] % 64)>> \o urlsafe_b64encode(SubSeq(d, 4, Len(d)))

\* the text with its padding kept
rstrip_keep(s, c) ==
    s

RECURSIVE rstrip(_, _)
rstrip(s, c) ==
    IF s # <<>> /\ s[Len(s)] = c THEN rstrip(SubSeq(s, 1, Len(s) - 1), c) ELSE s

\* ------------------------------------------------------------------------
\* base64.urlsafe_b64decode(s): translate "-_" to "+/", then the lenient
\* (non-strict) decoder of binascii.a2b_base64: bytes outside the alphabet
\* are skipped, a pad sequence that completes a quad ends the input, and the
\* input must not end inside a quad.  64 marks a byte outside the alphabet.
\* ------------------------------------------------------------------------
B64Value(c) ==
    IF c >= 65 /\ c <= 90 THEN c - 65
    ELSE IF c >= 97 /\ c <= 122 THEN c - 97 + 26
    ELSE IF c >= 48 /\ c <= 57 THEN c - 48 + 52
    ELSE IF c = 43 \/ c = 45 THEN 62
    ELSE IF c = 47 \/ c = 95 THEN 63
    ELSE 64

RECURSIVE a2b_base64(_, _, _, _, _, _)
a2b_base64(s, i, quad_pos, leftchar, pads, out) ==
    IF i > Len(s) THEN
        IF quad_pos # 0 THEN Raise ELSE Ok(out)
    ELSE IF s[i] = 61 THEN
        IF quad_pos >= 2 /\ quad_pos + pads + 1 >= 4 THEN Ok(out)
        ELSE a2b_base64(s, i + 1, quad_pos, leftchar,
                        IF quad_pos >= 2 THEN pads + 1 ELSE pads, out)
    ELSE IF B64Value(s[i]) = 64 THEN
        a2b_base64(s, i + 1, quad_pos, leftchar, pads, out)
    ELSE
        LET v == B64Value(s[i])
        IN  CASE quad_pos = 0 -> a2b_base64(s, i + 1, 1, v, 0, out)
              [] quad_pos = 1 -> a2b_base64(s, i + 1, 2, v % 16, 0,
                                      Append(out, leftchar * 4 + (v \div 16)))
              [] quad_pos = 2 -> a2b_base64(s, i + 1, 3, v % 4, 0,
                                      Append(out, leftchar * 16 + (v \div 4)))
              [] quad_pos = 3 -> a2b_base64(s, i + 1, 0, 0, 0,
                                      Append(out, leftchar * 64 + v))

urlsafe_b64decode(s) ==
    a2b_base64(s, 1, 0, 0, 0, <<>>)

\* b"=" * (-len(token) % 4)
Padding(n) ==
    [i \in 1..((4 - (n % 4)) % 4) |-> 61]

\* ------------------------------------------------------------------------
\* struct.pack("!i", v) / struct.unpack("!i", b): 4 bytes, big-endian,
\* two's complement; pack raises struct.error outside the 32-bit range and
\* unpack raises it unless given exactly 4 bytes.
\* ------------------------------------------------------------------------
Int32Min ==
    -2147483647 - 1

Int32Max ==
    2147483647

BigEndian4(n) ==
    <<n \div 16777216, (n \div 65536) % 256, (n \div 256) % 256, n % 256>>

\* struct.pack("!i", w) of an int w given in two limbs: struct.error outside
\* 32 bits, else the four bytes of the two's complement
struct_pack_i(w) ==
    IF ~WideGE(w, Wide(Int32Min)) \/ ~WideGE(Wide(Int32Max), w) THEN Raise
    ELSE LET v == w.hi * Limb + w.lo
         IN  IF v >= 0 THEN Ok(BigEndian4(v))
             ELSE Ok([i \in 1..4 |-> 255 - BigEndian4(-(v + 1))[i]])

struct_unpack_i(b) ==
    IF Len(b) # 4 THEN Raise
    ELSE IF b[1] < 128
         THEN Ok(((b[1] * 256 + b[2]) * 256 + b[3]) * 256 + b[4])
         ELSE Ok(-((((255 - b[1]) * 256 + (255 - b[2])) * 256
                       + (255 - b[3])) * 256 + (255 - b[4])) - 1)

\* data[:n] and data[n:]
Take(s, n) ==
    SubSeq(s, 1, IF n < Len(s) THEN n ELSE Len(s))

Drop(s, n) ==
    SubSeq(s, (IF n < Len(s) THEN n ELSE Len(s)) + 1, Len(s))

\* data[-n:] and data[:-n] for n > 0
LastN(s, n) ==
    IF n >= Len(s) THEN s ELSE SubSeq(s, Len(s) - n + 1, Len(s))

DropLastN(s, n) ==
    IF n >= Len(s) THEN <<>> ELSE SubSeq(s, 1, Len(s) - n)

\* ------------------------------------------------------------------------
\* Python values of the max_age argument and of settings.MAX_AGE: None, an
\* int, or a datetime.timedelta (normalised: 0 <= seconds < 86400,
\* 0 <= microseconds < 10^6); total_seconds() yields a float, kept exactly
\* as whole seconds plus microseconds.
\* ------------------------------------------------------------------------
IntVal(n) ==
    [type |-> "int", whole |-> n, micros |-> 0]

TimeDelta(d, s, us) ==
    [type |-> "timedelta", days |-> d, seconds |-> s, microseconds |-> us]

total_seconds(td) ==
    [type |-> "float", whole |-> td.days * 86400 + td.seconds,
     micros |-> td.microseconds]

\* age >= max_age, for an int age (two limbs) and an int or float max_age
AgeGE(age, m) ==
    IF m.micros = 0 THEN WideGE(age, Wide(m.whole))
                    ELSE WideGE(age, Wide(m.whole + 1))

\* ------------------------------------------------------------------------
\* Timestamp codec (lines 16-43)
\* ------------------------------------------------------------------------
TIMESTAMP_OFFSET ==
    1577836800

\* pack_timestamp() under configuration cfg at clock second t
pack_timestamp(cfg, t) ==
    IF cfg.MAX_AGE = None THEN Ok(<<>>)
    ELSE struct_pack_i(WideSub(Wide(t), Wide(TIMESTAMP_OFFSET)))

\* unpack_timestamp with the epoch offset forgotten
unpack_timestamp_no_offset(cfg, t, data) ==
    IF cfg.MAX_AGE = None THEN Ok([age |-> None, data |-> data])
    ELSE LET u == struct_unpack_i(Take(data, 4))
         IN  IF ~u.ok THEN Raise
             ELSE Ok([age  |-> Some(WideSub(Wide(t), Wide(u.val))),
                      data |-> Drop(data, 4)])

\* unpack_timestamp with the timestamp read as unsigned ("!I")
unpack_timestamp_unsigned(cfg, t, data) ==
    IF cfg.MAX_AGE = None THEN Ok([age |-> None, data |-> data])
    ELSE LET b == Take(data, 4)
         IN  IF Len(b) # 4 THEN Raise
             ELSE Ok([age  |-> Some(WideSub(WideSub(Wide(t),
                                                    Wide(TIMESTAMP_OFFSET)),
                                            [hi |-> b[1] * 256 + b[2],
                                             lo |-> b[3] * 256 + b[4]])),
                      data |-> Drop(data, 4)])

\* unpack_timestamp(data) under configuration cfg at clock second t:
\* the age (None, or an int) and the remaining bytes
unpack_timestamp(cfg, t, data) ==
    IF cfg.MAX_AGE = None THEN Ok([age |-> None, data |-> data])
    ELSE LET u == struct_unpack_i(Take(data, 4))
         IN  IF ~u.ok THEN Raise
             ELSE Ok([age  |-> Some(WideSub(WideSub(Wide(t),
                                                    Wide(TIMESTAMP_OFFSET)),
                                            Wide(u.val))),
                      data |-> Drop(data, 4)])

\* ------------------------------------------------------------------------
\* Revocation key (lines 46-112)
\* ------------------------------------------------------------------------
HASH_SIZES ==
    (<<112, 98, 107, 100, 102, 50, 95, 115, 104, 97, 50, 53, 54>> :> 44) @@
    (<<112, 98, 107, 100, 102, 50, 95, 115, 104, 97, 49>> :> 28) @@
    (<<97, 114, 103, 111, 110, 50>> :> 22) @@
    (<<98, 99, 114, 121, 112, 116, 95, 115, 104, 97, 50, 53, 54>> :> 31) @@
    (<<98, 99, 114, 121, 112, 116>> :> 31) @@
    (<<115, 104, 97, 49>> :> 40) @@
    (<<109, 100, 53>> :> 32) @@
    (<<99, 114, 121, 112, 116>> :> 11)

\* s.partition(sep)[0]: the text before the first sep, or all of s
RECURSIVE partition0(_, _)
partition0(s, sep) ==
    IF s = <<>> \/ Head(s) = sep THEN <<>>
    ELSE <<Head(s)>> \o partition0(Tail(s), sep)

\* decimal digits of n, zero-padded to width w
RECURSIVE Digits(_, _)
Digits(n, w) ==
    IF w = 0 THEN <<>> ELSE Append(Digits(n \div 10, w - 1), 48 + (n % 10))

\* datetime.isoformat() of a naive datetime
isoformat(dt) ==
    Digits(dt.year, 4) \o <<45>> \o Digits(dt.month, 2) \o <<45>>
        \o Digits(dt.day, 2) \o <<84>> \o Digits(dt.hour, 2) \o <<58>>
        \o Digits(dt.minute, 2) \o <<58>> \o Digits(dt.second, 2)
        \o (IF dt.microsecond = 0 THEN <<>>
            ELSE <<46>> \o Digits(dt.microsecond, 6))

\* the password contribution with the table of hash sizes ignored
PasswordPart_whole(cfg, user) ==
    IF cfg.INVALIDATE_ON_PASSWORD_CHANGE /\ user.password # None
    THEN user.password[1]
    ELSE <<>>

PasswordPart(cfg, user) ==
    IF cfg.INVALIDATE_ON_PASSWORD_CHANGE /\ user.password # None
    THEN LET password  == user.password[1]
             algorithm == partition0(password, 36)
         IN  IF algorithm \in DOMAIN HASH_SIZES
             THEN LastN(password, HASH_SIZES[algorithm])
             ELSE password
    ELSE <<>>

LastLoginPart(cfg, user) ==
    IF cfg.ONE_TIME /\ user.last_login # None
    THEN isoformat(user.last_login[1])
    ELSE <<>>

\* get_revocation_key with the email left out
get_revocation_key_no_email(cfg, user) ==
    encode(PasswordPart(cfg, user) \o LastLoginPart(cfg, user))

\* get_revocation_key(user): bytes, or TypeError when the email is to be
\* appended and is None
get_revocation_key(cfg, user) ==
    IF cfg.INVALIDATE_ON_EMAIL_CHANGE /\ user.email = None THEN Raise
    ELSE encode(PasswordPart(cfg, user)
                \o (IF cfg.INVALIDATE_ON_EMAIL_CHANGE THEN user.email[1]
                    ELSE <<>>)
                \o LastLoginPart(cfg, user))

\* ------------------------------------------------------------------------
\* sign (lines 115-125).  BLAKE2b is taken as an ideal keyed hash: a
\* deterministic function of the digest size, the personalisation, the key
\* and the data that yields `size` bytes and is sensitive to every bit of
\* its input.  The model computes it as a polynomial hash modulo a prime.
\* ------------------------------------------------------------------------
Person ==
    <<115, 101, 115, 97, 109, 101, 46, 116, 111, 107, 101, 110, 115, 95, 118, 50>>

MacPrime ==
    8388593

Mix(h, b) ==
    (h * 251 + b + 1) % MacPrime

\* the state after the bytes bs[i..]; each state is computed before the next
\* byte is taken
RECURSIVE AbsorbFrom(_, _, _)
AbsorbFrom(h, bs, i) ==
    IF i > Len(bs) THEN h
    ELSE LET h2 == Mix(h, bs[i])
         IN  IF h2 >= 0 THEN AbsorbFrom(h2, bs, i + 1) ELSE h2

Absorb(h, bs) ==
    AbsorbFrom(h, bs, 1)

RECURSIVE Squeeze(_, _)
Squeeze(h, n) ==
    IF n = 0 THEN <<>>
    ELSE <<(h \div 7) % 256>> \o Squeeze(Mix(h, n), n - 1)

sign(data, key, size) ==
    Squeeze(Absorb(Absorb(Absorb(Mix(size, Len(key)), key), Person), data),
            size)

\* a comparison of the first byte only
compare_digest_first_byte(a, b) ==
    Take(a, 1) = Take(b, 1)

\* hmac.compare_digest(a, b)
compare_digest(a, b) ==
    a = b

\* ------------------------------------------------------------------------
\* Primary-key packer (packers.packer): a self-delimiting fixed-width
\* big-endian encoding of an integer key.
\* ------------------------------------------------------------------------
PK_SIZE ==
    1

RECURSIVE BigEndian(_, _)
BigEndian(n, w) ==
    IF w = 0 THEN <<>> ELSE Append(BigEndian(n \div 256, w - 1), n % 256)

RECURSIVE FromBigEndian(_)
FromBigEndian(b) ==
    IF b = <<>> THEN 0
    ELSE FromBigEndian(SubSeq(b, 1, Len(b) - 1)) * 256 + b[Len(b)]

pack_pk(pk) ==
    IF pk < 0 \/ BigEndian(pk, PK_SIZE + 1)[1] # 0 THEN Raise
    ELSE Ok(BigEndian(pk, PK_SIZE))

unpack_pk(data) ==
    IF Len(data) < PK_SIZE THEN Raise
    ELSE Ok([pk |-> FromBigEndian(Take(data, PK_SIZE)),
             data |-> Drop(data, PK_SIZE)])

\* create_token with the scope left out of the signed message
create_token_unscoped(cfg, t, user, scope) ==
    LET primary_key    == pack_pk(user.pk)
        timestamp      == pack_timestamp(cfg, t)
        revocation_key == get_revocation_key(cfg, user)
    IN  IF ~primary_key.ok \/ ~timestamp.ok \/ ~revocation_key.ok
        THEN Raise
        ELSE LET signature == sign(primary_key.val \o timestamp.val
                                       \o revocation_key.val,
                                   cfg.SIGNING_KEY, cfg.SIGNATURE_SIZE)
                 data == primary_key.val \o timestamp.val \o signature
             IN  Ok(decode(rstrip(urlsafe_b64encode(data), 61)))

\* ------------------------------------------------------------------------
\* create_token (lines 128-147) under configuration cfg at clock second t
\* ------------------------------------------------------------------------
create_token(cfg, t, user, scope) ==
    LET primary_key    == pack_pk(user.pk)
        timestamp      == pack_timestamp(cfg, t)
        revocation_key == get_revocation_key(cfg, user)
        scope_bytes    == encode(scope)
    IN  IF ~primary_key.ok \/ ~timestamp.ok \/ ~revocation_key.ok
           \/ ~scope_bytes.ok
        THEN Raise
        ELSE LET signature == sign(primary_key.val \o timestamp.val
                                       \o revocation_key.val \o scope_bytes.val,
                                   cfg.SIGNING_KEY, cfg.SIGNATURE_SIZE)
                 data == primary_key.val \o timestamp.val \o signature
             IN  Ok(decode(rstrip(urlsafe_b64encode(data), 61)))

\* ------------------------------------------------------------------------
\* detect_token (lines 245-253)
\* ------------------------------------------------------------------------
\* re.compile(r"[A-Za-z0-9-_]{4,}"): one character class, of three ranges
\* and the literals "-" and "_", repeated at least min times
token_re ==
    [ranges |-> {<<65, 90>>, <<97, 122>>, <<48, 57>>}, literals |-> {45, 95},
     min |-> 4]

\* the character c is in the class of pattern
InClass(pattern, c) ==
    \/ c \in pattern.literals
    \/ \E r \in pattern.ranges : r[1] <= c /\ c <= r[2]

\* the end of the longest run of class characters of s that starts at i
RECURSIVE RunEnd(_, _, _)
RunEnd(pattern, s, i) ==
    IF i > Len(s) \/ ~InClass(pattern, s[i]) THEN i - 1
    ELSE RunEnd(pattern, s, i + 1)

\* pattern.match(s): the greedy repetition takes the longest run and needs
\* at least min characters; the end of the match, or None
match(pattern, s) ==
    LET end == RunEnd(pattern, s, 1)
    IN  IF end >= pattern.min THEN Some(end) ELSE None

\* pattern.fullmatch(s): a match that ends where s ends (a shorter
\* repetition ends earlier still, so backtracking cannot help)
fullmatch(pattern, s) ==
    LET m == match(pattern, s)
    IN  IF m # None /\ m[1] = Len(s) THEN m ELSE None

\* detect_token with match in place of fullmatch
detect_token_match(token) ==
    match(token_re, token) # None

\* lines 248-253
detect_token(token) ==
    fullmatch(token_re, token) # None

\* ------------------------------------------------------------------------
\* State
\* ------------------------------------------------------------------------
VARIABLES
    settings,   \* the process-wide configuration (sesame.settings)
    users,      \* the user store behind get_user: primary key -> user
    now,        \* int(time.time())
    issued,     \* None, or the last create_token call: its arguments, the
                \* configuration and clock it ran under, and the token
    call,       \* the parse_token call of the running thread: its position,
                \* its locals, the argument max_age as passed (max_age_arg),
                \* the messages logged, the stages passed (trace) and the
                \* configuration replaced during the call (reconfigured)
    parked      \* the calls of the other threads, each stopped between
                \* two of its steps

vars ==
    <<settings, users, now, issued, call, parked>>

\* ------------------------------------------------------------------------
\* parse_token (lines 150-237), one action per stage of the pipeline
\* ------------------------------------------------------------------------
IdleCall ==
    [pc |-> "idle", token |-> <<>>, get_user |-> "lookup", scope |-> <<>>,
     max_age |-> None, max_age_arg |-> None, token_bytes |-> <<>>, data |-> <<>>, user_pk |-> 0,
     timestamp_and_signature |-> <<>>, age |-> None, signature |-> <<>>,
     user |-> None, primary_key_and_timestamp |-> <<>>,
     revocation_key |-> <<>>, keys |-> <<>>, result |-> None,
     log |-> <<>>, trace |-> <<>>, reconfigured |-> None]

\* return None, after logger.debug(message)
Reject(c, message) ==
    [c EXCEPT !.pc = "done", !.result = None, !.log = Append(@, message)]

\* an exception leaves parse_token
Propagate(c) ==
    [c EXCEPT !.pc = "raised"]

Passed(c, stage, next) ==
    [c EXCEPT !.pc = next, !.trace = Append(@, stage)]

\* the get_user argument: "lookup" resolves active users of the store and
\* returns None otherwise, "raises" fails with an exception
get_user(g, pk) ==
    IF g = "raises" THEN Raise
    ELSE IF pk \in DOMAIN users /\ users[pk].is_active THEN Ok(Some(users[pk]))
    ELSE Ok(None)

\* the max_age argument never consulted
ResolveMaxAge_configured(cfg, max_age) ==
    cfg.MAX_AGE

\* lines 196-204: the threshold the expiry check compares the age with
ResolveMaxAge(cfg, max_age) ==
    IF max_age = None THEN cfg.MAX_AGE
    ELSE IF cfg.MAX_AGE = None THEN max_age
    ELSE IF max_age[1].type = "timedelta" THEN Some(total_seconds(max_age[1]))
    ELSE max_age

\* lines 198-202: the warning about an ignored max_age argument
WarnsMaxAge(cfg, max_age) ==
    max_age # None /\ cfg.MAX_AGE = None

\* the expiry check with > in place of >=
Expired_strict(age, max_age) ==
    age # None /\ WideGE(age[1], Wide(max_age[1].whole + 1))

\* line 205
Expired(age, max_age) ==
    age # None /\ AgeGE(age[1], max_age[1])

\* line 205: age >= max_age raises TypeError for an int age and a max_age
\* that is None or a timedelta
Incomparable(age, max_age) ==
    age # None /\ (max_age = None \/ max_age[1].type = "timedelta")

\* line 150, 155: the call starts; token.encode()
ParseBegin(tk, g, sc, ma) ==
    /\ call.pc = "idle"
    /\ LET c == [IdleCall EXCEPT !.token = tk, !.get_user = g, !.scope = sc,
                                 !.max_age = ma, !.max_age_arg = ma]
           e == encode(tk)
       IN  call' = IF e.ok THEN [c EXCEPT !.pc = "decode", !.token_bytes = e.val]
                           ELSE Propagate(c)
    /\ UNCHANGED <<settings, users, now, issued, parked>>

\* lines 161-165
Decode ==
    /\ call.pc = "decode"
    /\ LET d == urlsafe_b64decode(call.token_bytes
                                      \o Padding(Len(call.token_bytes)))
       IN  call' = IF d.ok
                   THEN Passed([call EXCEPT !.data = d.val],
                               "Decoded", "unpack_pk")
                   ELSE Reject(call, "Bad token: cannot decode token")
    /\ UNCHANGED <<settings, users, now, issued, parked>>

\* lines 169-173
UnpackPk ==
    /\ call.pc = "unpack_pk"
    /\ LET u == unpack_pk(call.data)
       IN  call' = IF u.ok
                   THEN Passed([call EXCEPT !.user_pk = u.val.pk,
                                    !.timestamp_and_signature = u.val.data],
                               "KeyExtracted", "unpack_timestamp")
                   ELSE Reject(call, "Bad token: cannot extract primary key")
    /\ UNCHANGED <<settings, users, now, issued, parked>>

\* lines 175-179
UnpackTimestamp ==
    /\ call.pc = "unpack_timestamp"
    /\ LET u == unpack_timestamp(settings, now, call.timestamp_and_signature)
       IN  call' = IF u.ok
                   THEN Passed([call EXCEPT !.age = u.val.age,
                                            !.signature = u.val.data],
                               "TimestampExtracted", "check_signature")
                   ELSE Reject(call, "Bad token: cannot extract timestamp")
    /\ UNCHANGED <<settings, users, now, issued, parked>>

\* the user looked up right after the size check, before the expiry check
CheckSignatureSize_then_lookup ==
    /\ call.pc = "check_signature"
    /\ call' = IF Len(call.signature) # settings.SIGNATURE_SIZE
               THEN Reject(call, "Bad token: cannot extract signature")
               ELSE Passed(call, "SignatureSized", "get_user")
    /\ UNCHANGED <<settings, users, now, issued, parked>>

\* the size check with < in place of !=
CheckSignatureSize_at_least ==
    /\ call.pc = "check_signature"
    /\ call' = IF Len(call.signature) < settings.SIGNATURE_SIZE
               THEN Reject(call, "Bad token: cannot extract signature")
               ELSE Passed(call, "SignatureSized", "check_expiry")
    /\ UNCHANGED <<settings, users, now, issued, parked>>

\* lines 181-183
CheckSignatureSize ==
    /\ call.pc = "check_signature"
    /\ call' = IF Len(call.signature) # settings.SIGNATURE_SIZE
               THEN Reject(call, "Bad token: cannot extract signature")
               ELSE Passed(call, "SignatureSized", "check_expiry")
    /\ UNCHANGED <<settings, users, now, issued, parked>>

\* lines 196-207
CheckExpiry ==
    /\ call.pc = "check_expiry"
    /\ LET max_age == ResolveMaxAge(settings, call.max_age)
           c == [call EXCEPT !.max_age = max_age,
                        !.log = IF WarnsMaxAge(settings, call.max_age)
                                THEN Append(@, "Ignoring max_age argument")
                                ELSE @]
       IN  call' = IF Incomparable(call.age, max_age) THEN Propagate(c)
                   ELSE IF Expired(call.age, max_age)
                   THEN Reject(c, "Expired token")
                   ELSE Passed(c, "NotExpired", "get_user")
    /\ UNCHANGED <<settings, users, now, issued, parked>>

\* lines 211-218
GetUser ==
    /\ call.pc = "get_user"
    /\ LET u == get_user(call.get_user, call.user_pk)
           c == [call EXCEPT !.trace = Append(@, "get_user")]
       IN  call' = IF ~u.ok THEN Propagate(c)
                   ELSE IF u.val = None
                   THEN Reject(c, "Unknown or inactive user")
                   ELSE Passed([c EXCEPT !.user = u.val],
                               "UserResolved", "revocation_key")
    /\ UNCHANGED <<settings, users, now, issued, parked>>

\* lines 222-224: the signed prefix, the revocation key of the resolved
\* user, and the list of keys the loop iterates over
RevocationKey ==
    /\ call.pc = "revocation_key"
    /\ LET r == get_revocation_key(settings, call.user[1])
           c == [call EXCEPT !.primary_key_and_timestamp =
                                 DropLastN(call.data, settings.SIGNATURE_SIZE)]
       IN  call' = IF r.ok
                   THEN [c EXCEPT !.pc = "verify", !.revocation_key = r.val,
                                  !.keys = settings.VERIFICATION_KEYS]
                   ELSE Propagate(c)
    /\ UNCHANGED <<settings, users, now, issued, parked>>

\* verification against the current signing key alone
Verify_signing_key_only ==
    /\ call.pc = "verify"
    /\ LET scope_bytes == encode(call.scope) IN
       call' =
         IF ~scope_bytes.ok THEN Propagate(call)
         ELSE LET expected_signature ==
                      sign(call.primary_key_and_timestamp
                               \o call.revocation_key \o scope_bytes.val,
                           settings.SIGNING_KEY, settings.SIGNATURE_SIZE)
                  c == [call EXCEPT !.trace = Append(@, "sign")]
              IN  IF compare_digest(call.signature, expected_signature)
                  THEN [c EXCEPT !.pc = "done", !.result = call.user,
                                 !.trace = Append(@, "Verified"),
                                 !.log = Append(@, "Valid token")]
                  ELSE Reject(c, "Invalid token")
    /\ UNCHANGED <<settings, users, now, issued, parked>>

\* a verification that records the login of the accepted user
Verify_records_login ==
    /\ call.pc = "verify"
    /\ LET scope_bytes == encode(call.scope)
           expected_signature ==
               sign(call.primary_key_and_timestamp
                        \o call.revocation_key \o scope_bytes.val,
                    Head(call.keys), settings.SIGNATURE_SIZE)
           c == [call EXCEPT !.trace = Append(@, "sign")]
           match_found == call.keys # <<>> /\ scope_bytes.ok
                              /\ compare_digest(call.signature,
                                                expected_signature)
       IN  /\ call' =
                 IF call.keys = <<>> THEN Reject(call, "Invalid token")
                 ELSE IF ~scope_bytes.ok THEN Propagate(call)
                 ELSE IF match_found
                      THEN [c EXCEPT !.pc = "done", !.result = call.user,
                                     !.trace = Append(@, "Verified"),
                                     !.log = Append(@, "Valid token")]
                      ELSE [c EXCEPT !.keys = Tail(@)]
           /\ users' = IF match_found
                       THEN [users EXCEPT ![call.user[1].pk].last_login =
                                              Some([year |-> 2026, month |-> 1,
                                                    day |-> 1, hour |-> 0,
                                                    minute |-> 0, second |-> 0,
                                                    microsecond |-> 0])]
                       ELSE users
    /\ UNCHANGED <<settings, now, issued, parked>>

\* lines 224-237: one iteration of the loop over the verification keys, or
\* the rejection after the last key
Verify ==
    /\ call.pc = "verify"
    /\ LET scope_bytes == encode(call.scope) IN
       call' =
         IF call.keys = <<>> THEN Reject(call, "Invalid token")
         ELSE IF ~scope_bytes.ok THEN Propagate(call)
         ELSE LET expected_signature ==
                      sign(call.primary_key_and_timestamp
                               \o call.revocation_key \o scope_bytes.val,
                           Head(call.keys), settings.SIGNATURE_SIZE)
                  c == [call EXCEPT !.trace = Append(@, "sign")]
              IN  IF compare_digest(call.signature, expected_signature)
                  THEN [c EXCEPT !.pc = "done", !.result = call.user,
                                 !.trace = Append(@, "Verified"),
                                 !.log = Append(@, "Valid token")]
                  ELSE [c EXCEPT !.keys = Tail(@)]
    /\ UNCHANGED <<settings, users, now, issued, parked>>

\* the caller takes the result (or the exception); the next call may start
Return ==
    /\ call.pc \in {"done", "raised", "detected"}
    /\ call' = IdleCall
    /\ UNCHANGED <<settings, users, now, issued, parked>>

ParseStep ==
    \/ Decode
    \/ UnpackPk
    \/ UnpackTimestamp
    \/ CheckSignatureSize
    \/ CheckExpiry
    \/ GetUser
    \/ RevocationKey
    \/ Verify
    \/ Return

\* ------------------------------------------------------------------------
\* parse_token (lines 150-237) run from entry to exit under one
\* configuration cfg at clock second t: Ok(None), Ok(Some(user)) or Raise
\* ------------------------------------------------------------------------
parse_token(cfg, t, token, g, scope, max_age) ==
    LET token_bytes == encode(token)
        data == urlsafe_b64decode(token_bytes.val
                                      \o Padding(Len(token_bytes.val)))
        key == unpack_pk(data.val)
        stamp == unpack_timestamp(cfg, t, key.val.data)
        signature == stamp.val.data
        limit == ResolveMaxAge(cfg, max_age)
        user == get_user(g, key.val.pk)
        primary_key_and_timestamp == DropLastN(data.val, cfg.SIGNATURE_SIZE)
        revocation_key == get_revocation_key(cfg, user.val[1])
        scope_bytes == encode(scope)
        keys == cfg.VERIFICATION_KEYS
    IN  IF ~token_bytes.ok THEN Raise
        ELSE IF ~data.ok \/ ~key.ok \/ ~stamp.ok THEN Ok(None)
        ELSE IF Len(signature) # cfg.SIGNATURE_SIZE THEN Ok(None)
        ELSE IF Incomparable(stamp.val.age, limit) THEN Raise
        ELSE IF Expired(stamp.val.age, limit) THEN Ok(None)
        ELSE IF ~user.ok THEN Raise
        ELSE IF user.val = None THEN Ok(None)
        ELSE IF ~revocation_key.ok THEN Raise
        ELSE IF keys = <<>> THEN Ok(None)
        ELSE IF ~scope_bytes.ok THEN Raise
        ELSE IF \E i \in 1..Len(keys) :
                    compare_digest(signature,
                                   sign(primary_key_and_timestamp
                                            \o revocation_key.val
                                            \o scope_bytes.val,
                                        keys[i], cfg.SIGNATURE_SIZE))
             THEN Ok(user.val)
             ELSE Ok(None)

\* ------------------------------------------------------------------------
\* create_token called for a stored user
\* ------------------------------------------------------------------------
CreateToken(pk, sc) ==
    /\ call.pc = "idle"
    /\ issued = None
    /\ LET t == create_token(settings, now, users[pk], sc)
       IN  /\ t.ok
           /\ issued' = Some([token |-> t.val, user |-> users[pk],
                              scope |-> sc, at |-> now, settings |-> settings])
    /\ UNCHANGED <<settings, users, now, call, parked>>

\* detect_token(tk), lines 248-253: one step; call.result holds the boolean
DetectToken(tk) ==
    /\ call.pc = "idle"
    /\ call' = [IdleCall EXCEPT !.pc = "detected", !.token = tk,
                                !.result = Some(detect_token(tk))]
    /\ UNCHANGED <<settings, users, now, issued, parked>>

\* the scheduler stops the running thread between two steps of its call and
\* resumes thread i
Switch(i) ==
    /\ i \in 1..Len(parked)
    /\ call' = parked[i]
    /\ parked' = [parked EXCEPT ![i] = call]
    /\ UNCHANGED <<settings, users, now, issued>>

\* ------------------------------------------------------------------------
\* The environment: the clock, the user store, key rotation
\* ------------------------------------------------------------------------
MaxTick ==
    3

Epoch ==
    TIMESTAMP_OFFSET + 5

Tick ==
    /\ call.pc = "idle"
    /\ now < Epoch + MaxTick
    /\ now' = now + 1
    /\ UNCHANGED <<settings, users, issued, call, parked>>

\* the clock is set, forwards or backwards
SetClock(t) ==
    /\ call.pc = "idle"
    /\ now # t
    /\ now' = t
    /\ UNCHANGED <<settings, users, issued, call, parked>>

\* the process-wide configuration is replaced, between two calls or between
\* two steps of the call in progress (once per call)
Reconfigure(new) ==
    /\ call.pc \notin {"done", "raised", "detected"}
    /\ call.reconfigured = None
    /\ new # settings
    /\ settings' = new
    /\ call' = IF call.pc = "idle" THEN call
               ELSE [call EXCEPT !.reconfigured = Some(settings)]
    /\ UNCHANGED <<users, now, issued, parked>>

SetPassword(pk, p) ==
    /\ call.pc = "idle"
    /\ issued # None
    /\ users[pk].password # p
    /\ users' = [users EXCEPT ![pk].password = p]
    /\ UNCHANGED <<settings, now, issued, call, parked>>

SetEmail(pk, e) ==
    /\ call.pc = "idle"
    /\ issued # None
    /\ users[pk].email # e
    /\ users' = [users EXCEPT ![pk].email = e]
    /\ UNCHANGED <<settings, now, issued, call, parked>>

Login(pk, d) ==
    /\ call.pc = "idle"
    /\ issued # None
    /\ users[pk].last_login # Some(d)
    /\ users' = [users EXCEPT ![pk].last_login = Some(d)]
    /\ UNCHANGED <<settings, now, issued, call, parked>>

Key(i) ==
    <<i, 75, 101, 121>>

\* a new signing key is put first; the previous keys still verify
RotateKey(k) ==
    /\ call.pc = "idle"
    /\ \A i \in 1..Len(settings.VERIFICATION_KEYS) :
           settings.VERIFICATION_KEYS[i] # k
    /\ settings' = [settings EXCEPT !.SIGNING_KEY = k,
                                    !.VERIFICATION_KEYS = <<k>> \o @]
    /\ UNCHANGED <<users, now, issued, call, parked>>

\* the oldest verification key is removed
RetireKey ==
    /\ call.pc = "idle"
    /\ Len(settings.VERIFICATION_KEYS) > 1
    /\ settings' = [settings EXCEPT !.VERIFICATION_KEYS =
                                        SubSeq(@, 1, Len(@) - 1)]
    /\ UNCHANGED <<users, now, issued, call, parked>>

\* ------------------------------------------------------------------------
\* Values the model draws from
\* ------------------------------------------------------------------------
Flags ==
    [INVALIDATE_ON_PASSWORD_CHANGE : BOOLEAN,
     INVALIDATE_ON_EMAIL_CHANGE : BOOLEAN, ONE_TIME : BOOLEAN]

AllFlags ==
    [INVALIDATE_ON_PASSWORD_CHANGE |-> TRUE,
     INVALIDATE_ON_EMAIL_CHANGE |-> TRUE, ONE_TIME |-> TRUE]

NoFlags ==
    [INVALIDATE_ON_PASSWORD_CHANGE |-> FALSE,
     INVALIDATE_ON_EMAIL_CHANGE |-> FALSE, ONE_TIME |-> FALSE]

Settings(f, max_age, size) ==
    [MAX_AGE |-> max_age, SIGNATURE_SIZE |-> size, SIGNING_KEY |-> Key(1),
     VERIFICATION_KEYS |-> <<Key(1)>>,
     INVALIDATE_ON_PASSWORD_CHANGE |-> f.INVALIDATE_ON_PASSWORD_CHANGE,
     INVALIDATE_ON_EMAIL_CHANGE |-> f.INVALIDATE_ON_EMAIL_CHANGE,
     ONE_TIME |-> f.ONE_TIME]

DefaultScope ==
    <<>>

\* "reset"
ResetScope ==
    <<114, 101, 115, 101, 116>>

Scopes ==
    {DefaultScope, ResetScope}

\* "x", "xy": no algorithm tag, the whole string contributes
PasswordX ==
    <<120>>

PasswordXY ==
    <<120, 121>>

\* "crypt$ab$0123456789x", "crypt$cd$0123456789x" (another salt, the same
\* hash), "crypt$ab$0123456789y" (another hash)
PasswordCryptA ==
    <<99, 114, 121, 112, 116, 36, 97, 98, 36, 48, 49, 50, 51, 52, 53, 54, 55, 56, 57, 120>>

PasswordCryptB ==
    <<99, 114, 121, 112, 116, 36, 99, 100, 36, 48, 49, 50, 51, 52, 53, 54, 55, 56, 57, 120>>

PasswordCryptC ==
    <<99, 114, 121, 112, 116, 36, 97, 98, 36, 48, 49, 50, 51, 52, 53, 54, 55, 56, 57, 121>>

\* "yz@a", "z@a"
EmailYZ ==
    <<121, 122, 64, 97>>

EmailZ ==
    <<122, 64, 97>>

Login1 ==
    [year |-> 2020, month |-> 1, day |-> 1, hour |-> 0, minute |-> 0,
     second |-> 7, microsecond |-> 0]

Login2 ==
    [year |-> 2020, month |-> 1, day |-> 1, hour |-> 0, minute |-> 0,
     second |-> 7, microsecond |-> 250000]

User(pk, password, email, last_login, is_active) ==
    [pk |-> pk, password |-> password, email |-> email,
     last_login |-> last_login, is_active |-> is_active]

\* The store holds users 1 and 3, whose primary keys differ in one bit.
\* User 1 is the one whose attributes change.
Pks ==
    {1, 3}

Store(first) ==
    (1 :> first) @@
    (3 :> User(3, Some(PasswordCryptC), Some(EmailZ), None, TRUE))

MaxAge ==
    3

\* ------------------------------------------------------------------------
\* Spec: the life of a token.  One token is created for either user in
\* either scope; then the clock advances, user 1 logs in or changes password
\* or email, and the token is parsed in either scope.
\* ------------------------------------------------------------------------
Init ==
    /\ settings \in {Settings(f, m, 2) :
                        f \in Flags, m \in {None, Some(IntVal(MaxAge))}}
    /\ users = Store(User(1, Some(PasswordCryptA), Some(EmailYZ), None, TRUE))
    /\ now = Epoch
    /\ issued = None
    /\ call = IdleCall
    /\ parked = <<>>

Next ==
    \/ \E pk \in Pks, sc \in Scopes : CreateToken(pk, sc)
    \/ Tick
    \/ \E p \in {PasswordCryptA, PasswordCryptC} : SetPassword(1, Some(p))
    \/ \E e \in {EmailYZ, EmailZ} : SetEmail(1, Some(e))
    \/ Login(1, Login1)
    \/ \E sc \in Scopes :
           issued # None /\ ParseBegin(issued[1].token, "lookup", sc, None)
    \/ ParseStep

Spec ==
    Init /\ [][Next]_vars

\* ------------------------------------------------------------------------
\* SpecExpiry: a token ages while it is parsed with and without a max_age
\* argument: seconds below and above the configured value, and durations.
\* ------------------------------------------------------------------------
MaxAgeArgs ==
    {None, Some(IntVal(0)), Some(IntVal(1)), Some(IntVal(MaxAge + 1)),
     Some(TimeDelta(0, 1, 500000)), Some(TimeDelta(0, MaxAge - 1, 0))}

InitExpiry ==
    /\ settings \in {Settings(f, m, 2) :
                        f \in {NoFlags, AllFlags},
                        m \in {None, Some(IntVal(MaxAge))}}
    /\ users = Store(User(1, Some(PasswordCryptA), Some(EmailYZ), None, TRUE))
    /\ now = Epoch
    /\ issued = None
    /\ call = IdleCall
    /\ parked = <<>>

NextExpiry ==
    \/ \E pk \in Pks : CreateToken(pk, DefaultScope)
    \/ Tick
    \/ \E ma \in MaxAgeArgs :
           issued # None
               /\ ParseBegin(issued[1].token, "lookup", DefaultScope, ma)
    \/ ParseStep

SpecExpiry ==
    InitExpiry /\ [][NextExpiry]_vars

\* ------------------------------------------------------------------------
\* SpecRevoke: a token of user 1 is created in any state of the user; then
\* the password, the email and the last login change, and the token is
\* parsed.  Timestamps are off: the token never expires.
\* ------------------------------------------------------------------------
Passwords ==
    {PasswordX, PasswordXY, PasswordCryptA, PasswordCryptB, PasswordCryptC}

Emails ==
    {EmailYZ, EmailZ}

InitRevoke ==
    /\ settings \in {Settings(f, None, 2) : f \in Flags}
    /\ users \in {Store(User(1, Some(p), Some(e), l, TRUE)) :
                      p \in Passwords, e \in Emails, l \in {None, Some(Login1)}}
    /\ now = Epoch
    /\ issued = None
    /\ call = IdleCall
    /\ parked = <<>>

NextRevoke ==
    \/ CreateToken(1, DefaultScope)
    \/ \E p \in Passwords : SetPassword(1, Some(p))
    \/ \E e \in {None} \cup {Some(x) : x \in Emails} : SetEmail(1, e)
    \/ \E d \in {Login1, Login2} : Login(1, d)
    \/ issued # None /\ ParseBegin(issued[1].token, "lookup", DefaultScope, None)
    \/ ParseStep

SpecRevoke ==
    InitRevoke /\ [][NextRevoke]_vars

\* ------------------------------------------------------------------------
\* SpecRotate: signing keys are rotated in and old verification keys are
\* retired, before and after a token is created.
\* ------------------------------------------------------------------------
Keys ==
    {Key(1), Key(2), Key(3)}

InitRotate ==
    /\ settings \in {Settings(f, None, 2) : f \in {NoFlags, AllFlags}}
    /\ users = Store(User(1, Some(PasswordCryptA), Some(EmailYZ), None, TRUE))
    /\ now = Epoch
    /\ issued = None
    /\ call = IdleCall
    /\ parked = <<>>

NextRotate ==
    \/ \E pk \in Pks : CreateToken(pk, DefaultScope)
    \/ \E k \in Keys : RotateKey(k)
    \/ RetireKey
    \/ issued # None /\ ParseBegin(issued[1].token, "lookup", DefaultScope, None)
    \/ ParseStep

SpecRotate ==
    InitRotate /\ [][NextRotate]_vars

\* ------------------------------------------------------------------------
\* SpecTamper: parse_token is given modified tokens: one bit of the decoded
\* bytes flipped, text cut short, a byte appended, a foreign character
\* inserted, "-_" written as "+/", arbitrary short text; and failing
\* collaborators: a get_user that raises, a user without email, a scope or
\* token with a lone surrogate.
\* ------------------------------------------------------------------------
Pow2(b) ==
    2 ^ b

FlipBit(data, i, b) ==
    [data EXCEPT ![i] = IF (@ \div Pow2(b)) % 2 = 1 THEN @ - Pow2(b)
                                                    ELSE @ + Pow2(b)]

Encoded(data) ==
    decode(rstrip(urlsafe_b64encode(data), 61))

\* the bytes a valid token decodes to
Decoded(tk) ==
    urlsafe_b64decode(tk \o Padding(Len(tk))).val

Insert(tk, i, c) ==
    SubSeq(tk, 1, i) \o <<c>> \o SubSeq(tk, i + 1, Len(tk))

\* "!", "=", "+", "/", e-acute, a lone surrogate
ForeignChars ==
    {33, 61, 43, 47, 233, 55296}

\* "-_" written as "+/"
Standard(tk) ==
    [i \in 1..Len(tk) |-> IF tk[i] = 45 THEN 43
                          ELSE IF tk[i] = 95 THEN 47 ELSE tk[i]]

BitFlips(tk) ==
    LET data == Decoded(tk)
    IN  {Encoded(FlipBit(data, i, b)) : i \in 1..Len(data), b \in 0..7}

Truncations(tk) ==
    {SubSeq(tk, 1, k) : k \in 0..(Len(tk) - 1)}

Insertions(tk) ==
    {Insert(tk, i, c) : i \in 0..Len(tk), c \in ForeignChars}

\* "", "A", "!@#", "AAAA"
Garbage ==
    {<<>>, <<65>>, <<33, 64, 35>>, <<65, 65, 65, 65>>}

Modified(tk) ==
    BitFlips(tk) \cup Truncations(tk) \cup Insertions(tk)
        \cup {Standard(tk), Encoded(Decoded(tk) \o <<0>>)} \cup Garbage

SurrogateScope ==
    <<55296>>

InitTamper ==
    /\ settings \in {Settings(f, m, 2) :
                        f \in {NoFlags, AllFlags},
                        m \in {None, Some(IntVal(MaxAge))}}
    /\ users = Store(User(1, Some(PasswordCryptA), Some(EmailYZ), None, TRUE))
    /\ now = Epoch
    /\ issued = None
    /\ call = IdleCall
    /\ parked = <<>>

NextTamper ==
    \/ \E pk \in Pks : CreateToken(pk, DefaultScope)
    \/ Tick
    \/ SetEmail(1, None)
    \/ /\ call.pc = "idle"
       /\ \E tk \in (IF issued = None THEN Garbage
                     ELSE Modified(issued[1].token)) :
              ParseBegin(tk, "lookup", DefaultScope, None)
    \/ \E g \in {"lookup", "raises"}, sc \in {DefaultScope, SurrogateScope} :
           issued # None /\ ParseBegin(issued[1].token, g, sc, None)
    \/ ParseStep

SpecTamper ==
    InitTamper /\ [][NextTamper]_vars

\* ------------------------------------------------------------------------
\* SpecLayout: tokens are created under every signature size, with and
\* without timestamp; the token, and its bytes cut short or extended, are
\* given to detect_token and to parse_token.
\* ------------------------------------------------------------------------
SignatureSizes ==
    {1, 2, 3}

\* the bytes of tk cut after k bytes, and extended by one and two bytes
Resized(tk) ==
    LET data == Decoded(tk)
    IN  {Encoded(SubSeq(data, 1, k)) : k \in 0..Len(data)}
            \cup {Encoded(data \o <<0>>), Encoded(data \o <<0, 0>>)}

InitLayout ==
    /\ settings \in {Settings(NoFlags, m, z) :
                        m \in {None, Some(IntVal(MaxAge))},
                        z \in SignatureSizes}
    /\ users = Store(User(1, Some(PasswordCryptA), Some(EmailYZ), None, TRUE))
    /\ now = Epoch
    /\ issued = None
    /\ call = IdleCall
    /\ parked = <<>>

NextLayout ==
    \/ \E pk \in Pks, sc \in Scopes : CreateToken(pk, sc)
    \/ issued # None /\ DetectToken(issued[1].token)
    \/ /\ call.pc = "idle"
       /\ issued # None
       /\ \E tk \in Resized(issued[1].token) :
              ParseBegin(tk, "lookup", issued[1].scope, None)
    \/ ParseStep

SpecLayout ==
    InitLayout /\ [][NextLayout]_vars

\* ------------------------------------------------------------------------
\* SpecDetect: detect_token is given every text of up to MaxText characters
\* over "A", "-", "_", "+", "=", and four-character texts with a character
\* next to an end of a range of the class, a newline or a non-ASCII digit.
\* ------------------------------------------------------------------------
MaxText ==
    5

TextChars ==
    {65, 45, 95, 43, 61}

\* "\n", ",", "-", ".", "/", "0", "9", ":", "@", "A", "Z", "[", "^", "_",
\* "`", "a", "z", "{", e-acute, ARABIC-INDIC DIGIT ZERO
EdgeChars ==
    {10, 44, 45, 46, 47, 48, 57, 58, 64, 65, 90, 91, 94, 95, 96, 97, 122, 123,
     233, 1632}

Texts ==
    UNION {[1..n -> TextChars] : n \in 0..MaxText}
        \cup {<<65, 65, 65, c>> : c \in EdgeChars}
        \cup {<<c, 65, 65, 65>> : c \in EdgeChars}

NextDetect ==
    \/ call.pc = "idle" /\ \E tk \in Texts : DetectToken(tk)
    \/ Return

SpecDetect ==
    InitLayout /\ [][NextDetect]_vars

\* ------------------------------------------------------------------------
\* SpecConcurrent: 1 + Others threads call create_token and parse_token
\* under a fixed configuration, user store and clock; the scheduler switches
\* threads between any two steps.
\* ------------------------------------------------------------------------
Others ==
    1

InitConcurrent ==
    /\ settings \in {Settings(AllFlags, m, 2) :
                        m \in {None, Some(IntVal(MaxAge))}}
    /\ users = Store(User(1, Some(PasswordCryptA), Some(EmailYZ), None, TRUE))
    /\ now = Epoch
    /\ issued = None
    /\ call = IdleCall
    /\ parked = [i \in 1..Others |-> IdleCall]

\* before a token exists "AAAA"; then the token, and the token with the
\* lowest bit of its last byte flipped
Presentable ==
    IF issued = None THEN {<<65, 65, 65, 65>>}
    ELSE LET data == Decoded(issued[1].token)
         IN  {issued[1].token, Encoded(FlipBit(data, Len(data), 0))}

NextConcurrent ==
    \/ CreateToken(1, DefaultScope)
    \/ \E tk \in Presentable : ParseBegin(tk, "lookup", DefaultScope, None)
    \/ ParseStep
    \/ \E i \in 1..Others : Switch(i)

SpecConcurrent ==
    InitConcurrent /\ [][NextConcurrent]_vars

\* ------------------------------------------------------------------------
\* SpecDerive: users in every combination of password, email and last
\* login, under every combination of the three flags; a token is created
\* for user 1 and parsed.
\* ------------------------------------------------------------------------
\* "md5$x": a known tag and a hash shorter than its size
PasswordMd5Short ==
    <<109, 100, 53, 36, 120>>

\* "md5": a known tag and no "$"
PasswordTagOnly ==
    <<109, 100, 53>>

\* e-acute "@a"
EmailAccent ==
    <<233, 64, 97>>

DerivePasswords ==
    {None} \cup {Some(p) : p \in Passwords
                               \cup {PasswordMd5Short, PasswordTagOnly, <<>>}}

DeriveEmails ==
    {None, Some(EmailYZ), Some(EmailAccent)}

DeriveLogins ==
    {None, Some(Login1), Some(Login2)}

InitDerive ==
    /\ settings \in {Settings(f, None, 2) : f \in Flags}
    /\ users \in {Store(User(1, p, e, l, TRUE)) :
                      p \in DerivePasswords, e \in DeriveEmails,
                      l \in DeriveLogins}
    /\ now = Epoch
    /\ issued = None
    /\ call = IdleCall
    /\ parked = <<>>

NextDerive ==
    \/ CreateToken(1, DefaultScope)
    \/ issued # None /\ ParseBegin(issued[1].token, "lookup", DefaultScope, None)
    \/ ParseStep

SpecDerive ==
    InitDerive /\ [][NextDerive]_vars

\* ------------------------------------------------------------------------
\* SpecCodec: the clock takes values around the creation of a token, before
\* it, at both ends of the range of the 32-bit timestamp and outside it; a
\* token is created at one value and parsed at another.
\* ------------------------------------------------------------------------
\* the first clock second whose timestamp fits 32 bits (1951-12-13T20:45:52Z)
FirstSecond ==
    TIMESTAMP_OFFSET + Int32Min

\* 0 is 1970-01-01; Int32Max is 2038-01-19T03:14:07Z
ClockValues ==
    {FirstSecond - 1, FirstSecond, 0, Epoch - 2, Epoch, Epoch + 1,
     Epoch + MaxAge, Int32Max}

InitCodec ==
    /\ settings \in {Settings(NoFlags, m, 2) :
                        m \in {None, Some(IntVal(MaxAge))}}
    /\ users = Store(User(1, Some(PasswordCryptA), Some(EmailYZ), None, TRUE))
    /\ now \in ClockValues
    /\ issued = None
    /\ call = IdleCall
    /\ parked = <<>>

NextCodec ==
    \/ \E t \in ClockValues : SetClock(t)
    \/ \E pk \in Pks : CreateToken(pk, DefaultScope)
    \/ \E ma \in {None, Some(IntVal(0))} :
           issued # None
               /\ ParseBegin(issued[1].token, "lookup", DefaultScope, ma)
    \/ ParseStep

SpecCodec ==
    InitCodec /\ [][NextCodec]_vars

\* ------------------------------------------------------------------------
\* SpecReconfigure: max-age, signature size and keys are replaced between
\* calls and once between two steps of a parse_token call.
\* ------------------------------------------------------------------------
KeyLists ==
    {<<Key(1)>>, <<Key(2), Key(1)>>, <<Key(2)>>}

Configurations ==
    {[Settings(NoFlags, m, z) EXCEPT !.SIGNING_KEY = Head(ks),
                                     !.VERIFICATION_KEYS = ks] :
        m \in {None, Some(IntVal(MaxAge))}, z \in {2, 3}, ks \in KeyLists}

InitReconfigure ==
    /\ settings \in Configurations
    /\ users = Store(User(1, Some(PasswordCryptA), Some(EmailYZ), None, TRUE))
    /\ now = Epoch
    /\ issued = None
    /\ call = IdleCall
    /\ parked = <<>>

NextReconfigure ==
    \/ CreateToken(1, DefaultScope)
    \/ \E new \in Configurations : Reconfigure(new)
    \/ \E ma \in {None, Some(IntVal(0))} :
           issued # None
               /\ ParseBegin(issued[1].token, "lookup", DefaultScope, ma)
    \/ ParseStep

SpecReconfigure ==
    InitReconfigure /\ [][NextReconfigure]_vars

\* ------------------------------------------------------------------------
\* Vocabulary of the properties
\* ------------------------------------------------------------------------
Finished ==
    call.pc \in {"done", "raised"}

Accepted ==
    call.pc = "done" /\ call.result # None

Rejected ==
    call.pc = "done" /\ call.result = None

Logged(message) ==
    \E i \in 1..Len(call.log) : call.log[i] = message

\* the finished call was given the issued token, unmodified
Presented ==
    Finished /\ issued # None /\ call.token = issued[1].token

Owner ==
    users[issued[1].user.pk]

\* seconds on the clock since the token was created
Elapsed ==
    now - issued[1].at

\* get_user resolves the primary key of the token to its user
Resolves ==
    call.get_user = "lookup" /\ Owner.is_active

RevocationKeyUnchanged ==
    get_revocation_key(settings, Owner)
        = get_revocation_key(issued[1].settings, issued[1].user)

\* ------------------------------------------------------------------------
\* C1  Round trip: a token created for a user in a scope and parsed in that
\* scope yields that user, provided get_user resolves the primary key, the
\* revocation key and the configuration are those of the creation, and
\* fewer seconds than max-age have elapsed.
\* ------------------------------------------------------------------------
RoundTrip ==
    (/\ Presented
     /\ call.scope = issued[1].scope
     /\ Resolves
     /\ RevocationKeyUnchanged
     /\ settings = issued[1].settings
     /\ call.max_age_arg = None
     /\ settings.MAX_AGE # None => Elapsed < settings.MAX_AGE[1].whole)
    => /\ Accepted
       /\ call.result = Some(Owner)
       /\ call.result[1].pk = issued[1].user.pk

\* an aged token of user 1 in scope "reset" is accepted after a change of the
\* user that does not contribute to the revocation key
RoundTripWitness ==
    /\ Presented /\ Accepted
    /\ call.scope = ResetScope /\ issued[1].scope = ResetScope
    /\ settings.MAX_AGE # None /\ Elapsed = MaxAge - 1
    /\ Owner # issued[1].user
    /\ settings.ONE_TIME

\* ------------------------------------------------------------------------
\* C5  Scope isolation: with the user and the keys as they were at creation,
\* a token is rejected when parsed in a scope other than the one it was
\* created in.
\* ------------------------------------------------------------------------
ScopeIsolation ==
    (/\ Presented
     /\ call.scope # issued[1].scope
     /\ Owner = issued[1].user
     /\ settings = issued[1].settings)
    => Rejected

\* a "reset" token of an unchanged user fails the signature check in the
\* default scope
ScopeIsolationWitness ==
    /\ Presented /\ Rejected
    /\ issued[1].scope = ResetScope /\ call.scope = DefaultScope
    /\ Owner = issued[1].user
    /\ Logged("Invalid token")

\* the call is otherwise valid: the issued token, unmodified, in its scope,
\* with a get_user that resolves its user
Valid ==
    Presented /\ call.scope = issued[1].scope /\ Resolves

\* ------------------------------------------------------------------------
\* C2  Expiry boundary: with timestamps enabled and an effective max-age of
\* N seconds, an otherwise valid token is accepted up to age N - 1 and
\* rejected as expired from age N on; with timestamps disabled no age is
\* computed and the token is not rejected, whatever time has elapsed.
\* ------------------------------------------------------------------------
\* the effective max-age, when it is a number of seconds
Threshold ==
    IF call.max_age_arg = None THEN settings.MAX_AGE[1] ELSE call.max_age_arg[1]

ExpiryBoundary ==
    (/\ Valid
     /\ RevocationKeyUnchanged
     /\ settings = issued[1].settings)
    => IF settings.MAX_AGE = None
       THEN Accepted /\ call.age = None /\ ~Logged("Expired token")
       ELSE Threshold.type = "int" =>
                /\ Elapsed <= Threshold.whole - 1 => Accepted
                /\ Elapsed >= Threshold.whole
                       => Rejected /\ Logged("Expired token")

\* a token of exactly the configured max-age is rejected as expired
ExpiryBoundaryWitness ==
    /\ Valid /\ Rejected /\ Logged("Expired token")
    /\ call.max_age_arg = None
    /\ settings.MAX_AGE = Some(IntVal(MaxAge))
    /\ Elapsed = MaxAge

\* ------------------------------------------------------------------------
\* C10  Max-age resolution: with timestamps enabled the expiry check uses
\* the max_age argument when one is given (seconds, or a duration converted
\* to seconds) and the configured value otherwise; with timestamps disabled
\* a max_age argument only causes a warning and the token is not rejected as
\* expired.
\* ------------------------------------------------------------------------
\* Elapsed >= v, for v a number of seconds or a duration
ElapsedAtLeast(v) ==
    IF v.type = "timedelta"
    THEN Elapsed * 1000000
             >= (v.days * 86400 + v.seconds) * 1000000 + v.microseconds
    ELSE Elapsed >= v.whole

MaxAgeResolution ==
    (/\ Valid
     /\ RevocationKeyUnchanged
     /\ settings = issued[1].settings)
    => /\ Logged("Ignoring max_age argument")
              <=> (call.max_age_arg # None /\ settings.MAX_AGE = None)
       /\ IF settings.MAX_AGE = None
          THEN Accepted
          ELSE IF ElapsedAtLeast(Threshold)
               THEN Rejected /\ Logged("Expired token")
               ELSE Accepted

\* a duration of 1.5 seconds overrides the configured max-age: the token is
\* rejected at age 2, when the configured value would still accept it
MaxAgeResolutionWitness ==
    /\ Valid /\ Rejected /\ Logged("Expired token")
    /\ call.max_age_arg = Some(TimeDelta(0, 1, 500000))
    /\ settings.MAX_AGE = Some(IntVal(MaxAge))
    /\ Elapsed = 2 /\ Elapsed < MaxAge

\* ------------------------------------------------------------------------
\* C3  Revocation.  As claimed: after any change of a contributing attribute
\* (the password-hash tail, the email, the last login, each if its flag is
\* on) the token is no longer accepted, and with no such change it stays
\* accepted.
\* ------------------------------------------------------------------------
PasswordTailChanged ==
    PasswordPart(settings, Owner) # PasswordPart(settings, issued[1].user)

EmailChanged ==
    settings.INVALIDATE_ON_EMAIL_CHANGE /\ Owner.email # issued[1].user.email

LastLoginChanged ==
    settings.ONE_TIME /\ Owner.last_login # issued[1].user.last_login

ChangedAttributes ==
    {a \in {"password", "email", "last_login"} :
        \/ a = "password" /\ PasswordTailChanged
        \/ a = "email" /\ EmailChanged
        \/ a = "last_login" /\ LastLoginChanged}

RevocationAnyChange ==
    (Valid /\ settings = issued[1].settings)
    => IF ChangedAttributes # {} THEN ~Accepted ELSE Accepted

\* C3 as amended: the token stays accepted exactly as long as the revocation
\* key, the concatenation of the contributions, is the one it was created
\* with; a change of exactly one contributing attribute always changes it,
\* and the token is then no longer accepted; with no contributing attribute
\* changed the token stays accepted.
Revocation ==
    (Valid /\ settings = issued[1].settings)
    => /\ Accepted <=> RevocationKeyUnchanged
       /\ Cardinality(ChangedAttributes) = 1 => ~Accepted
       /\ ChangedAttributes = {} => Accepted

\* the email alone changed and the token is rejected
RevocationWitness ==
    /\ Valid /\ Rejected /\ Logged("Invalid token")
    /\ ChangedAttributes = {"email"}
    /\ settings.INVALIDATE_ON_PASSWORD_CHANGE

\* ------------------------------------------------------------------------
\* C4  Key rotation: a token signed with key K is accepted as long as K is
\* anywhere in the list of verification keys, also when K is no longer the
\* signing key, and rejected once K is removed from the list; the keys are
\* tried in list order and the first match ends the search.
\* ------------------------------------------------------------------------
TokenKey ==
    issued[1].settings.SIGNING_KEY

Position(k, keys) ==
    {i \in 1..Len(keys) : keys[i] = k}

Signatures ==
    Cardinality({i \in 1..Len(call.trace) : call.trace[i] = "sign"})

KeyRotation ==
    (/\ Valid
     /\ RevocationKeyUnchanged
     /\ [settings EXCEPT !.SIGNING_KEY = TokenKey,
                         !.VERIFICATION_KEYS = <<TokenKey>>]
            = [issued[1].settings EXCEPT !.VERIFICATION_KEYS = <<TokenKey>>])
    => LET at == Position(TokenKey, settings.VERIFICATION_KEYS)
       IN  IF at # {}
           THEN /\ Accepted
                /\ \A i \in at : Signatures <= i
                /\ Signatures \in at
           ELSE /\ Rejected
                /\ Signatures = Len(settings.VERIFICATION_KEYS)

\* a token signed with a key that is now the last of three verification
\* keys is accepted at the third attempt
KeyRotationWitness ==
    /\ Valid /\ Accepted
    /\ Len(settings.VERIFICATION_KEYS) = 3
    /\ settings.VERIFICATION_KEYS[3] = TokenKey
    /\ settings.SIGNING_KEY # TokenKey
    /\ Signatures = 3

\* ------------------------------------------------------------------------
\* C6  Tamper sensitivity: a token whose decoded bytes differ in exactly one
\* bit from those of a valid token is not accepted.
\* ------------------------------------------------------------------------
BitsOf(byte) ==
    {b \in 0..7 : (byte \div Pow2(b)) % 2 = 1}

\* the number of bits in which two byte strings of one length differ
Distance(x, y) ==
    Cardinality({<<i, b>> \in (1..Len(x)) \X (0..7) :
                    (b \in BitsOf(x[i])) # (b \in BitsOf(y[i]))})

OneBitFlipped ==
    /\ issued # None
    /\ LET mine == urlsafe_b64decode(call.token_bytes
                                         \o Padding(Len(call.token_bytes)))
           valid == Decoded(issued[1].token)
       IN  mine.ok /\ Len(mine.val) = Len(valid) /\ Distance(mine.val, valid) = 1

TamperSensitivity ==
    (Finished /\ OneBitFlipped) => ~Accepted

\* a flipped bit in the last byte, a signature byte, fails the signature
\* check of the user the token was created for
TamperSensitivityWitness ==
    /\ Finished /\ OneBitFlipped /\ Rejected
    /\ Logged("Invalid token")
    /\ call.user = Some(Owner)
    /\ call.data[Len(call.data)] # Decoded(issued[1].token)[Len(call.data)]

\* ------------------------------------------------------------------------
\* C7  Malformed input: parse_token returns None, and does not raise, for a
\* token text that contains a character outside the URL-safe base64
\* alphabet, that is truncated, or whose bytes after the primary key and the
\* timestamp are not exactly SIGNATURE_SIZE long.  Stated for well-behaved
\* collaborators and text without lone surrogates.
\* ------------------------------------------------------------------------
UrlSafe(c) ==
    \/ c >= 65 /\ c <= 90
    \/ c >= 97 /\ c <= 122
    \/ c >= 48 /\ c <= 57
    \/ c = 45
    \/ c = 95

HasForeignChar(tk) ==
    \E i \in 1..Len(tk) : ~UrlSafe(tk[i])

Truncated(tk) ==
    issued # None /\ tk \in Truncations(issued[1].token)

WrongSignatureSize(tk) ==
    LET d == urlsafe_b64decode(tk \o Padding(Len(tk)))
        timestamp == IF settings.MAX_AGE = None THEN 0 ELSE 4
    IN  d.ok /\ Len(d.val) >= PK_SIZE + timestamp
             /\ Len(d.val) # PK_SIZE + timestamp + settings.SIGNATURE_SIZE

Malformed(tk) ==
    HasForeignChar(tk) \/ Truncated(tk) \/ WrongSignatureSize(tk)

MalformedRejected ==
    (/\ Finished
     /\ call.get_user = "lookup"
     /\ \A pk \in Pks : users[pk].email # None
     /\ encode(call.token).ok /\ encode(call.scope).ok
     /\ Malformed(call.token))
    => Rejected

\* ------------------------------------------------------------------------
\* C8  No exception leaves parse_token: whatever the input and the
\* collaborators do, a call ends with a user or with None.
\* ------------------------------------------------------------------------
NeverRaises ==
    call.pc # "raised"

\* ------------------------------------------------------------------------
\* C9  Pipeline order: get_user is invoked at most once per call, only after
\* decoding, key extraction, timestamp extraction, the signature-size check
\* and the expiry check have passed, and before any signature is computed;
\* a call rejected as malformed or expired does not invoke get_user.
\* ------------------------------------------------------------------------
Lookups ==
    {i \in 1..Len(call.trace) : call.trace[i] = "get_user"}

PipelineOrder ==
    /\ Cardinality(Lookups) <= 1
    /\ \A i \in Lookups :
           /\ SubSeq(call.trace, 1, i - 1)
                  = <<"Decoded", "KeyExtracted", "TimestampExtracted",
                      "SignatureSized", "NotExpired">>
           /\ Len(call.signature) = settings.SIGNATURE_SIZE
           /\ ~Expired(call.age, call.max_age)
    /\ \A i \in 1..Len(call.trace) :
           call.trace[i] = "sign" => \E j \in Lookups : j < i
    /\ (\/ Logged("Bad token: cannot decode token")
        \/ Logged("Bad token: cannot extract primary key")
        \/ Logged("Bad token: cannot extract timestamp")
        \/ Logged("Bad token: cannot extract signature")
        \/ Logged("Expired token")) => Lookups = {}

\* a call that looked the user up once and then computed a signature
PipelineOrderWitness ==
    /\ Finished
    /\ Cardinality(Lookups) = 1
    /\ Signatures = 1
    /\ call.age # None

\* ------------------------------------------------------------------------
\* C11  Token layout: the decoded bytes of a created token are the packed
\* primary key, then the 4 timestamp bytes exactly when timestamps are
\* enabled, then SIGNATURE_SIZE signature bytes; parse_token rejects, before
\* any user lookup, every token whose bytes after the primary key are not
\* (4 or 0) + SIGNATURE_SIZE long.
\* ------------------------------------------------------------------------
TimestampSize(cfg) ==
    IF cfg.MAX_AGE = None THEN 0 ELSE 4

TokenLayout ==
    /\ issued # None
           => LET data == Decoded(issued[1].token)
                  cfg == issued[1].settings
                  key == pack_pk(issued[1].user.pk).val
                  stamp == SubSeq(data, Len(key) + 1,
                                  Len(key) + TimestampSize(cfg))
              IN  /\ Len(data) = Len(key) + TimestampSize(cfg)
                                     + cfg.SIGNATURE_SIZE
                  /\ SubSeq(data, 1, Len(key)) = key
                  /\ cfg.MAX_AGE # None
                         => struct_unpack_i(stamp)
                                = Ok(issued[1].at - TIMESTAMP_OFFSET)
                  /\ Encoded(data) = issued[1].token
    /\ (/\ Finished
        /\ \E i \in 1..Len(call.trace) : call.trace[i] = "KeyExtracted"
        /\ Len(call.timestamp_and_signature)
               # TimestampSize(settings) + settings.SIGNATURE_SIZE)
       => /\ Rejected
          /\ Lookups = {}
          /\ \/ Logged("Bad token: cannot extract timestamp")
             \/ Logged("Bad token: cannot extract signature")

\* a token with one byte too many, under timestamps, is rejected at the
\* signature-size check
TokenLayoutWitness ==
    /\ Rejected /\ issued # None
    /\ settings.MAX_AGE # None
    /\ Len(call.timestamp_and_signature)
           = TimestampSize(settings) + settings.SIGNATURE_SIZE + 1
    /\ Len(call.data) = Len(Decoded(issued[1].token)) + 1
    /\ Logged("Bad token: cannot extract signature")

\* ------------------------------------------------------------------------
\* C12  detect_token(text) is true exactly when text has at least 4
\* characters, all of them letters, digits, "-" or "_"; it is false for a
\* shorter text and for a text with any other character, such as "+" or "=".
\* ------------------------------------------------------------------------
Detection ==
    call.pc = "detected"
        => (call.result = Some(TRUE)
               <=> /\ Len(call.token) >= 4
                   /\ \A i \in 1..Len(call.token) : UrlSafe(call.token[i]))

\* four characters of the class followed by "=": not a token
DetectionWitness ==
    /\ call.pc = "detected"
    /\ call.result = Some(FALSE)
    /\ Len(call.token) = 5
    /\ \A i \in 1..4 : UrlSafe(call.token[i])
    /\ call.token[5] = 61

\* ------------------------------------------------------------------------
\* C13  Statelessness under concurrency: create_token and parse_token write
\* no shared state, so under a fixed configuration, user store and clock
\* every call of every thread, however the threads interleave, returns what
\* it returns when run alone.
\* ------------------------------------------------------------------------
Outcome(c) ==
    IF c.pc = "raised" THEN Raise ELSE Ok(c.result)

Alone(c) ==
    parse_token(settings, now, c.token, c.get_user, c.scope, c.max_age_arg)

Calls ==
    {call} \cup {parked[i] : i \in 1..Len(parked)}

Stateless ==
    /\ \A c \in Calls : c.pc \in {"done", "raised"} => Outcome(c) = Alone(c)
    /\ issued # None
           => /\ settings = issued[1].settings
              /\ Owner = issued[1].user
              /\ Ok(issued[1].token)
                     = create_token(settings, now, Owner, issued[1].scope)

\* one thread has the token accepted while another is in the middle of
\* verifying the same token
StatelessWitness ==
    /\ Accepted
    /\ settings.ONE_TIME
    /\ \E i \in 1..Len(parked) :
           /\ parked[i].pc = "verify"
           /\ parked[i].token = call.token
           /\ parked[i].scope = call.scope

\* ------------------------------------------------------------------------
\* C14  Revocation-key derivation: get_revocation_key(user) is the
\* concatenation, in this order and without separators, of the password
\* contribution (nothing when the flag is off or the password is absent;
\* the last HASH_SIZES[tag] characters when the text before the first "$"
\* is a known tag; the whole string otherwise), the email when its flag is
\* on, and the ISO-8601 text of the last login when one-time is on and a
\* login has occurred.
\* ------------------------------------------------------------------------
\* the text before the first "$" of p
Tag(p) ==
    LET dollars == {i \in 1..Len(p) : p[i] = 36}
        first == IF dollars = {} THEN Len(p) + 1
                 ELSE CHOOSE i \in dollars : \A j \in dollars : i <= j
    IN  SubSeq(p, 1, first - 1)

\* the last n characters of p
Tail_n(p, n) ==
    [i \in 1..(IF n < Len(p) THEN n ELSE Len(p)) |->
        p[Len(p) - (IF n < Len(p) THEN n ELSE Len(p)) + i]]

PasswordContribution(user) ==
    IF ~settings.INVALIDATE_ON_PASSWORD_CHANGE \/ user.password = None
    THEN <<>>
    ELSE IF Tag(user.password[1]) \in DOMAIN HASH_SIZES
         THEN Tail_n(user.password[1], HASH_SIZES[Tag(user.password[1])])
         ELSE user.password[1]

EmailContribution(user) ==
    IF settings.INVALIDATE_ON_EMAIL_CHANGE THEN user.email[1] ELSE <<>>

\* "2020-01-01T00:00:07" and "2020-01-01T00:00:07.250000"
LoginContribution(user) ==
    IF ~settings.ONE_TIME \/ user.last_login = None THEN <<>>
    ELSE <<50, 48, 50, 48, 45, 48, 49, 45, 48, 49, 84, 48, 48, 58, 48, 48,
           58, 48, 55>>
             \o (IF user.last_login = Some(Login1) THEN <<>>
                 ELSE <<46, 50, 53, 48, 48, 48, 48>>)

Derived(user) ==
    encode(PasswordContribution(user) \o EmailContribution(user)
               \o LoginContribution(user))

Derivation ==
    /\ \A pk \in DOMAIN users :
           (users[pk].email # None \/ ~settings.INVALIDATE_ON_EMAIL_CHANGE)
               => get_revocation_key(settings, users[pk]) = Derived(users[pk])
    /\ call.pc = "verify" => Ok(call.revocation_key) = Derived(call.user[1])

\* all three contributions present in the key of a call: the 11-character
\* tail of a crypt hash, the email and the login with microseconds
DerivationWitness ==
    /\ call.pc = "verify"
    /\ settings.INVALIDATE_ON_PASSWORD_CHANGE
    /\ settings.INVALIDATE_ON_EMAIL_CHANGE
    /\ settings.ONE_TIME
    /\ call.user[1].password = Some(PasswordCryptA)
    /\ call.user[1].last_login = Some(Login2)
    /\ Len(call.revocation_key) = 11 + Len(EmailYZ) + 26
    /\ call.user[1].email = Some(EmailYZ)

\* ------------------------------------------------------------------------
\* C15  Timestamp codec: with timestamps enabled the age parse_token
\* computes for a token created at clock second t0 and parsed at t1 is
\* t1 - t0, for every pair of clock values; a negative age (t1 < t0) is not
\* rejected as expired for any max-age >= 0.  With timestamps disabled
\* pack_timestamp yields no bytes and unpack_timestamp yields no age and
\* leaves its input unchanged.
\* ------------------------------------------------------------------------
Unpacked ==
    /\ Presented
    /\ \E i \in 1..Len(call.trace) : call.trace[i] = "TimestampExtracted"

\* t1 - t0, in two limbs
WideElapsed ==
    WideSub(Wide(now), Wide(issued[1].at))

TimestampCodec ==
    IF settings.MAX_AGE = None
    THEN /\ pack_timestamp(settings, now) = Ok(<<>>)
         /\ Unpacked => /\ call.age = None
                        /\ call.signature = call.timestamp_and_signature
    ELSE Unpacked
             => /\ call.age = Some(WideElapsed)
                /\ call.signature = Drop(call.timestamp_and_signature, 4)
                /\ WideElapsed.hi < 0
                       => ~Logged("Expired token") /\ Accepted

\* a token from the future: created at the last second of 2038's range and
\* parsed at the first second of 1951's, with max_age = 0, it is accepted
TimestampCodecWitness ==
    /\ Unpacked /\ Accepted
    /\ call.max_age_arg = Some(IntVal(0))
    /\ issued[1].at = Int32Max
    /\ now = FirstSecond
    /\ call.age # None /\ call.age[1].hi < -32768

\* ------------------------------------------------------------------------
\* C16  Configuration change during a call: when the configuration
\* (verification keys, signature size, max-age) is replaced between two
\* steps of a parse_token call, the call returns what it returns entirely
\* under the old or entirely under the new configuration, and never raises.
\* ------------------------------------------------------------------------
\* the configuration the call started under
Old ==
    IF call.reconfigured = None THEN settings ELSE call.reconfigured[1]

Under(cfg) ==
    parse_token(cfg, now, call.token, call.get_user, call.scope,
                call.max_age_arg)

ReconfigurationAtomic ==
    Finished => /\ call.pc # "raised"
                /\ Outcome(call) \in {Under(Old), Under(settings)}

\* ------------------------------------------------------------------------
\* C17  Created tokens and detect_token: every token text returned by
\* create_token consists of letters, digits, "-" and "_" only, without "="
\* padding, and detect_token is true for it exactly when primary key,
\* timestamp and signature together are at least 3 bytes long (the minimum
\* size the token pattern is written for); a token of 2 bytes is 3
\* characters long and detect_token is false for it.
\* ------------------------------------------------------------------------
\* line 244: Minimum "sensible" size is 1 + 0 + 2 = 3 bytes
MinimumSize ==
    1 + 0 + 2

TokenSize(cfg, user) ==
    Len(pack_pk(user.pk).val) + TimestampSize(cfg) + cfg.SIGNATURE_SIZE

CreatedDetectable ==
    issued # None
        => LET tk == issued[1].token
           IN  /\ \A i \in 1..Len(tk) : UrlSafe(tk[i])
               /\ detect_token(tk)
                      <=> TokenSize(issued[1].settings, issued[1].user)
                              >= MinimumSize

\* the claim as stated: detect_token is true for every created token
CreatedDetected ==
    issued # None => detect_token(issued[1].token)

\* detect_token has answered for a created token of exactly the minimum size
CreatedDetectableWitness ==
    /\ issued # None
    /\ call.pc = "detected"
    /\ call.token = issued[1].token
    /\ call.result = Some(TRUE)
    /\ TokenSize(issued[1].settings, issued[1].user) = MinimumSize
    /\ Len(call.token) = 4

\* ------------------------------------------------------------------------
\* C18  Accepted tokens and detect_token: every token text for which
\* parse_token returns a user satisfies detect_token, so parse_token never
\* accepts a text with a character outside letters, digits, "-" and "_".
\* ------------------------------------------------------------------------
AcceptedDetected ==
    Accepted => detect_token(call.token)

=============================================================================
